---- MODULE Spec2Model ----
(***************************************************************************)
(* Model of the crypto trading bot of src/main.py: the quote feed producer *)
(* (fetch_prices), the volatility estimator (calculate_atr) and the        *)
(* decision engine (trade_logic), with the brokerage account, the market   *)
(* data provider and the clock as environment.                             *)
(*                                                                         *)
(* Numbers the code holds as floats are held here as exact fractions       *)
(* <<numerator, denominator>> in lowest terms with a positive denominator. *)
(* Symbols are sequences of characters, so that normalize_symbol really    *)
(* removes the slash.                                                      *)
(***************************************************************************)
EXTENDS Integers, Sequences, FiniteSets, TLC

----------------------------------------------------------------------------
(* Exact rational arithmetic *)

Abs(x) == IF x < 0 THEN -x ELSE x

RECURSIVE GCD(_, _)
GCD(a, b) == IF b = 0 THEN a ELSE GCD(b, a % b)

\* n/d in lowest terms, d > 0
Frac(n, d) ==
    LET g == GCD(Abs(n), Abs(d))
        s == IF d < 0 THEN -1 ELSE 1
    IN  <<(s * n) \div g, (s * d) \div g>>

F(n) == <<n, 1>>
FracAdd(a, b) == Frac(a[1] * b[2] + b[1] * a[2], a[2] * b[2])
FracSub(a, b) == Frac(a[1] * b[2] - b[1] * a[2], a[2] * b[2])
FracMul(a, b) == Frac(a[1] * b[1], a[2] * b[2])
FracDiv(a, b) == Frac(a[1] * b[2], a[2] * b[1])
FracLT(a, b) == a[1] * b[2] < b[1] * a[2]
FracLE(a, b) == a[1] * b[2] <= b[1] * a[2]
FracGT(a, b) == FracLT(b, a)
FracGE(a, b) == FracLE(b, a)

----------------------------------------------------------------------------
(* config.py *)

\* The configured list holds four symbols; the model tracks the first two.
SYMBOLS ==
    << <<"B", "T", "C", "/", "U", "S", "D">>,
       <<"E", "T", "H", "/", "U", "S", "D">> >>
CHECK_INTERVAL == 45
GAIN_THRESHOLD == Frac(1, 1000)
POSITION_SIZE == 150
MAX_INVESTMENT == 900
FEE_PERCENT == Frac(2, 1000)
MIN_TRADE_COOLDOWN == 30
ATR_MIN == Frac(5, 100000)
LOSS_THRESHOLD == Frac(3, 100)
TAKE_PROFIT == Frac(5, 100)
DAILY_LOSS_LIMIT == -200

\* Python's None, for a price; every real price is >= 0
None == -1
\* price_history keeps the last 50 points
HISTORY_CAP == 50
\* the ATR window
ATR_PERIOD == 14

----------------------------------------------------------------------------
(* Bounds of the model *)

\* polling cycles the producer runs
MaxCycles == 3
\* external calls of the engine that raise in a run
MaxFaults == 1

\* seconds from one pass of the engine's loop to the next: the second of
\* sleep(1), or a gap as long as the cooldown
Durations == {1, MIN_TRADE_COOLDOWN}

SymbolSet == {SYMBOLS[i] : i \in 1..Len(SYMBOLS)}
BTC == SYMBOLS[1]
ETH == SYMBOLS[2]

\* Answers of get_crypto_latest_quote: the mid-price (ask + bid) / 2 of each
\* symbol of the response, None for an empty quote; a symbol may be missing.
\* Prices move by exactly GAIN_THRESHOLD (1000 -> 1001), by more, or fall to 0.
QuoteResponses ==
    { (BTC :> 1000) @@ (ETH :> 1000),
      (BTC :> 1001) @@ (ETH :> None),
      (BTC :> 2000) @@ (ETH :> 1001),
      (BTC :> 0) }

----------------------------------------------------------------------------
(* Helpers of main.py *)

normalize_symbol(symbol) == SelectSeq(symbol, LAMBDA c : c # "/")

\* asset_map = {normalize_symbol(s): s for s in SYMBOLS}; a later symbol of
\* the list overwrites an earlier one with the same compact form
asset_map ==
    [c \in {normalize_symbol(s) : s \in SymbolSet} |->
        LET idx == {i \in 1..Len(SYMBOLS) : normalize_symbol(SYMBOLS[i]) = c}
        IN  SYMBOLS[CHOOSE i \in idx : \A j \in idx : j <= i]]

----------------------------------------------------------------------------
(* Market data provider: what get_crypto_bars may answer *)

Bar(h, l, c) == [high |-> h, low |-> l, close |-> c]

\* n bars without movement
FlatBars(n) == [i \in 1..n |-> Bar(1000, 1000, 1000)]
\* n bars that do not move within the minute and gap by 10 between minutes;
\* the first bar alone has a wide range
GapBars(n) ==
    [i \in 1..n |->
        IF i = 1 THEN Bar(2000, 1000, 1000)
        ELSE IF i % 2 = 0 THEN Bar(1010, 1010, 1010)
        ELSE Bar(1000, 1000, 1000)]

BarsError == [name |-> "error", raises |-> TRUE, present |-> FALSE, bars |-> <<>>]
BarsMissing == [name |-> "missing", raises |-> FALSE, present |-> FALSE, bars |-> <<>>]
BarsShort == [name |-> "short", raises |-> FALSE, present |-> TRUE,
              bars |-> GapBars(ATR_PERIOD - 1)]
BarsCalm == [name |-> "calm", raises |-> FALSE, present |-> TRUE,
             bars |-> FlatBars(ATR_PERIOD)]
BarsGap == [name |-> "gap", raises |-> FALSE, present |-> TRUE,
            bars |-> GapBars(ATR_PERIOD + 1)]
BarResponses == {BarsError, BarsMissing, BarsShort, BarsCalm, BarsGap}

----------------------------------------------------------------------------
(* calculate_atr *)

\* df['tr'] of row i: high - low for the first row (no previous close), else
\* max(high - low, |high - prev_close|, |low - prev_close|)
TrueRange(bars, i) ==
    LET b == bars[i]
        tr == b.high - b.low
    IN  IF i = 1 THEN tr
        ELSE LET pc == bars[i - 1].close
                 m1 == IF Abs(b.high - pc) > tr THEN Abs(b.high - pc) ELSE tr
             IN  IF Abs(b.low - pc) > m1 THEN Abs(b.low - pc) ELSE m1

RECURSIVE SumTR(_, _, _)
SumTR(bars, from, to) ==
    IF from > to THEN 0 ELSE TrueRange(bars, from) + SumTR(bars, from + 1, to)

\* df['tr'].tail(14).mean()
TailMean(bars) ==
    LET n == Len(bars)
        first == IF n > ATR_PERIOD THEN n - ATR_PERIOD + 1 ELSE 1
    IN  Frac(SumTR(bars, first, n), n - first + 1)

\* the answers on which the estimate is the floor: get_crypto_bars raises, the
\* symbol is missing from the answer, or fewer than 14 bars came
AtrFallback(resp) ==
    resp.raises \/ ~resp.present \/ Len(resp.bars) < ATR_PERIOD

\* the estimate computed from 13 bars on
calculate_atr_ShortWindow(resp) ==
    IF resp.raises THEN ATR_MIN
    ELSE IF ~resp.present \/ Len(resp.bars) < ATR_PERIOD - 1 THEN ATR_MIN
    ELSE TailMean(resp.bars)

calculate_atr(resp) ==
    IF resp.raises THEN ATR_MIN
    ELSE IF ~resp.present \/ Len(resp.bars) < ATR_PERIOD THEN ATR_MIN
    ELSE TailMean(resp.bars)

\* the estimate for each answer of the provider
AtrOf == [resp \in BarResponses |-> calculate_atr(resp)]

----------------------------------------------------------------------------
(* Brokerage account: the positions get_all_positions reports *)

Position(sym, q, cb) == [symbol |-> sym, qty |-> q, cost_basis |-> cb]

BTCUSD == <<"B", "T", "C", "U", "S", "D">>
ETHUSD == <<"E", "T", "H", "U", "S", "D">>
DOGEUSD == <<"D", "O", "G", "E", "U", "S", "D">>

\* profit_percent is exactly -LOSS_THRESHOLD at price 1000 and between the
\* thresholds at 1001
BtcSL == Position(BTCUSD, 243, 250000)
EthSL == Position(ETHUSD, 243, 250000)
\* profit_percent is exactly TAKE_PROFIT at price 1001 and between the
\* thresholds at 1000
EthTP == Position(ETHUSD, 263, 250250)
\* cost basis exactly MAX_INVESTMENT
BtcCap == Position(BTCUSD, 1, 900)
\* a position in a symbol the bot does not track
DogePos == Position(DOGEUSD, 5, 500)

\* the account at startup; a sell order is filled at once and closes its
\* position, a buy order stays open for the rest of the run
Portfolios ==
    { <<BtcSL, EthSL>>, <<DogePos, EthTP>>, <<BtcCap>> }

----------------------------------------------------------------------------
(* Pure parts of trade_logic *)

\* the price put at the front of the history instead of its end
AppendHistory_Prepend(hist, price) ==
    LET h == <<price>> \o hist
    IN  IF Len(h) > HISTORY_CAP THEN SubSeq(h, 1, HISTORY_CAP) ELSE h

\* the newest point popped past 50 points, instead of the oldest
AppendHistory_EvictsNewest(hist, price) ==
    LET h == Append(hist, price)
    IN  IF Len(h) > HISTORY_CAP THEN SubSeq(h, 1, HISTORY_CAP) ELSE h

\* price_history[symbol].append(price), then pop(0) past 50 points
AppendHistory(hist, price) ==
    LET h == Append(hist, price)
    IN  IF Len(h) > HISTORY_CAP THEN Tail(h) ELSE h

\* the division of percent_gain raises ZeroDivisionError
MomentumRaises(hist) == Len(hist) > 1 /\ hist[Len(hist) - 1] = 0

\* the gain with the two prices swapped in the difference
percent_gain_Reversed(hist) ==
    IF Len(hist) > 1
    THEN FracDiv(FracSub(F(hist[Len(hist) - 1]), F(hist[Len(hist)])),
                 F(hist[Len(hist) - 1]))
    ELSE F(0)

\* (current_price - price_history[-2]) / price_history[-2], or 0 with one point
percent_gain(hist) ==
    IF Len(hist) > 1
    THEN FracDiv(FracSub(F(hist[Len(hist)]), F(hist[Len(hist) - 1])),
                 F(hist[Len(hist) - 1]))
    ELSE F(0)

\* sum of cost_basis over the positions of the symbol
RECURSIVE current_investment(_, _)
current_investment(positions, sym) ==
    IF positions = <<>> THEN 0
    ELSE (IF Head(positions).symbol = normalize_symbol(sym)
          THEN Head(positions).cost_basis ELSE 0)
         + current_investment(Tail(positions), sym)

\* the buy guard with the cooldown test written >= instead of >
BuyGuard_InclusiveCooldown(cooldown_time, atr, investment, gain) ==
    /\ cooldown_time >= MIN_TRADE_COOLDOWN
    /\ FracGT(atr, ATR_MIN)
    /\ investment < MAX_INVESTMENT
    /\ FracGE(gain, GAIN_THRESHOLD)

\* the buy guard with the ATR test written >= instead of >
BuyGuard_InclusiveAtr(cooldown_time, atr, investment, gain) ==
    /\ cooldown_time > MIN_TRADE_COOLDOWN
    /\ FracGE(atr, ATR_MIN)
    /\ investment < MAX_INVESTMENT
    /\ FracGE(gain, GAIN_THRESHOLD)

\* the four conditions of the buy branch (under current_price > 0)
BuyGuard(cooldown_time, atr, investment, gain) ==
    /\ cooldown_time > MIN_TRADE_COOLDOWN
    /\ FracGT(atr, ATR_MIN)
    /\ investment < MAX_INVESTMENT
    /\ FracGE(gain, GAIN_THRESHOLD)

\* the elif branch with the gain test written > instead of >=
NoBuyBranch_Strict(gain) == FracGT(gain, GAIN_THRESHOLD)

\* the condition of the elif branch
NoBuyBranch(gain) == FracGE(gain, GAIN_THRESHOLD)

\* the reason list of a no_buy
NoBuyReasons(cooldown_time, atr, investment) ==
    (IF cooldown_time <= MIN_TRADE_COOLDOWN THEN <<"Cooldown active">> ELSE <<>>)
    \o (IF FracLE(atr, ATR_MIN) THEN <<"Low volatility (ATR)">> ELSE <<>>)
    \o (IF investment >= MAX_INVESTMENT THEN <<"Max investment reached">> ELSE <<>>)

\* qty = POSITION_SIZE / current_price
BuyQty(price) == Frac(POSITION_SIZE, price)

\* entry_price = float(pos.cost_basis) / float(pos.qty)
entry_price(pos) == FracDiv(F(pos.cost_basis), F(pos.qty))

\* profit_percent = (curr_price - entry_price) / entry_price - FEE_PERCENT
profit_percent(curr_price, entry) ==
    FracSub(FracDiv(FracSub(F(curr_price), entry), entry), FEE_PERCENT)

\* the sell test with both comparisons strict
SellGuard_Strict(pp) ==
    FracGT(pp, TAKE_PROFIT) \/ FracLT(pp, FracSub(F(0), LOSS_THRESHOLD))

SellGuard(pp) ==
    FracGE(pp, TAKE_PROFIT) \/ FracLE(pp, FracSub(F(0), LOSS_THRESHOLD))

\* the realized PnL without the fee
SellPnl_NoFee(curr_price, entry, qty) ==
    FracMul(FracSub(F(curr_price), entry), F(qty))

\* pnl = (curr_price - entry_price) * qty - FEE_PERCENT * entry_price * qty
SellPnl(curr_price, entry, qty) ==
    FracSub(FracMul(FracSub(F(curr_price), entry), F(qty)),
            FracMul(FracMul(FEE_PERCENT, entry), F(qty)))

\* daily_pnl < DAILY_LOSS_LIMIT
RiskBreached(pnl) == FracLT(pnl, F(DAILY_LOSS_LIMIT))

\* a line of trades.csv, without its timestamp
Record(action, sym, price, qty, pnl, reason) ==
    [action |-> action, symbol |-> sym, price |-> price, qty |-> qty,
     daily_pnl |-> pnl, reason |-> reason]

\* The clock is kept relative: since_trade[s] is datetime.now() minus
\* last_trade[s] in whole seconds. Every value above MIN_TRADE_COOLDOWN passes
\* the cooldown test alike, so the value saturates there. last_trade starts
\* at 0, the epoch, which is far more than the cooldown before the start.
Saturated == MIN_TRADE_COOLDOWN + 1
Elapse(since, d) ==
    [s \in DOMAIN since |-> IF since[s] + d > Saturated THEN Saturated
                            ELSE since[s] + d]

----------------------------------------------------------------------------
VARIABLES
    cycles,          \* polling cycles the producer has run
    trade_queue,     \* queue.Queue(): events (symbol, price)
    e_pc,            \* engine: "get", "sell", "sleep", "halted"
    symbol,          \* engine: symbol of the event of this tick
    current_price,   \* engine: price of the event of this tick
    todo,            \* engine: positions the sell loop has yet to examine
    current_prices,  \* latest price of each symbol
    price_history,   \* prices of each symbol, oldest first
    since_trade,     \* seconds since last_trade of each symbol
    daily_pnl,       \* realized PnL accumulator
    ledger,          \* trades.csv
    account,         \* positions the brokerage holds
    faults,          \* external calls of the engine that have raised so far
    step             \* what the engine's last step did (for stating properties)

vars == <<cycles, trade_queue, e_pc, symbol, current_price, todo,
          current_prices, price_history, since_trade, daily_pnl, ledger,
          account, faults, step>>

tick_vars == <<symbol, current_price, todo>>
book_vars == <<current_prices, price_history, daily_pnl, ledger>>

Init ==
    /\ cycles = 0
    /\ trade_queue = <<>>
    /\ e_pc = "get"
    /\ symbol = SYMBOLS[1]
    /\ current_price = None
    /\ todo = <<>>
    /\ current_prices = [s \in SymbolSet |-> None]
    /\ price_history = [s \in SymbolSet |-> <<>>]
    /\ since_trade = [s \in SymbolSet |-> Saturated]
    /\ daily_pnl = F(0)
    /\ ledger = <<>>
    /\ account \in Portfolios
    /\ faults = 0
    /\ step = [op |-> "start"]

----------------------------------------------------------------------------
(* __main__: the producer is a daemon thread and trade_logic runs in the   *)
(* main thread, so the process, and the producer with it, ends when        *)
(* trade_logic returns.                                                    *)

\* a producer that is no daemon thread outlives trade_logic
ProcessAlive_Always == TRUE

ProcessAlive == e_pc # "halted"

----------------------------------------------------------------------------
(* fetch_prices *)

\* for symbol in SYMBOLS: quote = quotes[symbol]; trade_queue.put((symbol,
\* price)), from the i-th symbol on: the events put until the loop ends or
\* quotes[symbol] raises KeyError for a symbol missing from the response
RECURSIVE PutLoop(_, _)
PutLoop(response, i) ==
    IF i > Len(SYMBOLS) \/ SYMBOLS[i] \notin DOMAIN response THEN <<>>
    ELSE <<<<SYMBOLS[i], response[SYMBOLS[i]]>>>> \o PutLoop(response, i + 1)

\* One polling cycle in which get_crypto_latest_quote answers. The puts of a
\* cycle are one step: the engine reads the queue at its head only, so a
\* dequeue between two puts of a cycle commutes with the later put.
Poll(response) ==
    /\ ProcessAlive
    /\ cycles < MaxCycles
    /\ cycles' = cycles + 1
    /\ trade_queue' = trade_queue \o PutLoop(response, 1)
    /\ UNCHANGED <<e_pc, tick_vars, book_vars, since_trade, account, faults, step>>

\* One polling cycle in which get_crypto_latest_quote raises: the error is
\* logged and the producer sleeps CHECK_INTERVAL
FetchFail ==
    /\ ProcessAlive
    /\ cycles < MaxCycles
    /\ cycles' = cycles + 1
    /\ UNCHANGED <<trade_queue, e_pc, tick_vars, book_vars, since_trade, account, faults,
                   step>>

----------------------------------------------------------------------------
(* trade_logic *)

\* an exception that ends the loop
AfterException_Halts == "halted"

\* except Exception: the error is logged and the loop goes on to sleep(1)
AfterException == "sleep"

\* The external calls of a tick that may raise: get_all_positions of the buy
\* evaluation, submit_order, the write to trades.csv, get_all_positions of the
\* sell loop. Each aborts the tick, so at most one of them raises in a tick.
TickFaults == {"none", "positions", "order", "ledger", "query"}

\* a fault may strike while the budget of the run lasts
FaultAllowed(fault) == fault = "none" \/ faults < MaxFaults

\* the absent price stored as the latest price before it is tested
DequeueAbsent_Records ==
    /\ e_pc = "get"
    /\ trade_queue # <<>>
    /\ Head(trade_queue)[2] = None
    /\ trade_queue' = Tail(trade_queue)
    /\ symbol' = Head(trade_queue)[1]
    /\ current_price' = None
    /\ current_prices' = [current_prices EXCEPT ![Head(trade_queue)[1]] = None]
    /\ step' = [op |-> "tick", result |-> "absent"]
    /\ UNCHANGED <<cycles, e_pc, todo, price_history, daily_pnl, ledger,
                   since_trade, account, faults>>

\* trade_queue.get returns an event with price None: continue
DequeueAbsent ==
    /\ e_pc = "get"
    /\ trade_queue # <<>>
    /\ Head(trade_queue)[2] = None
    /\ trade_queue' = Tail(trade_queue)
    /\ symbol' = Head(trade_queue)[1]
    /\ current_price' = None
    /\ step' = [op |-> "tick", result |-> "absent"]
    /\ UNCHANGED <<cycles, e_pc, todo, book_vars, since_trade, account, faults>>

\* trade_queue.get(timeout=CHECK_INTERVAL) raises queue.Empty
DequeueTimeout ==
    /\ e_pc = "get"
    /\ trade_queue = <<>>
    /\ since_trade' = Elapse(since_trade, CHECK_INTERVAL)
    /\ e_pc' = AfterException
    /\ step' = [op |-> "tick", result |-> "timeout"]
    /\ UNCHANGED <<cycles, trade_queue, tick_vars, book_vars, account, faults>>

\* results of the buy evaluation that are an exception
BuyRaised == {"momentum_error", "positions_error", "order_error",
              "buy_unlogged", "no_buy_unlogged"}

\* What lines 102-134 come to, for price history hist of the symbol, price of
\* the event, the estimate atr, cooldown_time and the positions of the account
BuyResult(hist, price, atr, cooldown_time, positions, sym, fault) ==
    IF MomentumRaises(hist) THEN "momentum_error"
    ELSE IF price > 0
    THEN IF fault = "positions" THEN "positions_error"
         ELSE IF BuyGuard(cooldown_time, atr, current_investment(positions, sym),
                          percent_gain(hist))
         THEN IF fault = "order" THEN "order_error"
              ELSE IF fault = "ledger" THEN "buy_unlogged" ELSE "buy"
         ELSE IF NoBuyBranch(percent_gain(hist))
                 /\ NoBuyReasons(cooldown_time, atr,
                                 current_investment(positions, sym)) # <<>>
         THEN IF fault = "ledger" THEN "no_buy_unlogged" ELSE "no_buy"
         ELSE "none"
    ELSE "none"

\* the cooldown stamped before the order is known to have gone through
CooldownStamped_Early(result) == result \in {"buy", "buy_unlogged", "order_error"}

\* a buy that leaves last_trade as it was
CooldownStamped_Never(result) == FALSE

\* last_trade[symbol] = time.time() comes after submit_order returned
CooldownStamped(result) == result \in {"buy", "buy_unlogged"}

\* One pass of the loop from trade_queue.get to the start of the sell loop:
\* the event is dequeued, current_prices and price_history are updated, the
\* ATR is fetched (resp), the buy branch is evaluated and the positions of the
\* sell loop are queried.
Tick(resp, fault) ==
    /\ e_pc = "get"
    /\ trade_queue # <<>>
    /\ Head(trade_queue)[2] # None
    /\ FaultAllowed(fault)
    /\ LET sym == Head(trade_queue)[1]
           price == Head(trade_queue)[2]
           hist == AppendHistory(price_history[sym], price)
           atr == AtrOf[resp]
           cooldown_time == since_trade[sym]
           investment == current_investment(account, sym)
           result == BuyResult(hist, price, atr, cooldown_time, account, sym, fault)
           raised == result \in BuyRaised
                     \/ (fault = "query" /\ result \notin BuyRaised)
       IN  /\ trade_queue' = Tail(trade_queue)
           /\ symbol' = sym
           /\ current_price' = price
           /\ current_prices' = [current_prices EXCEPT ![sym] = price]
           /\ price_history' = [price_history EXCEPT ![sym] = hist]
           /\ since_trade' = IF CooldownStamped(result)
                             THEN [since_trade EXCEPT ![sym] = 0]
                             ELSE since_trade
           /\ ledger' =
                IF result = "buy"
                THEN Append(ledger, Record("buy", sym, price, BuyQty(price),
                                           daily_pnl, <<>>))
                ELSE IF result = "no_buy"
                THEN Append(ledger, Record("no_buy", sym, price, F(0), daily_pnl,
                                NoBuyReasons(cooldown_time, atr, investment)))
                ELSE ledger
           /\ IF raised
              THEN e_pc' = AfterException /\ todo' = <<>>
              ELSE e_pc' = "sell" /\ todo' = account
           /\ faults' = IF raised /\ result # "momentum_error"
                        THEN faults + 1 ELSE faults
           /\ step' =
                IF result = "momentum_error"
                THEN [op |-> "tick", result |-> result]
                ELSE [op |-> "tick", result |-> result, raised |-> raised,
                      symbol |-> sym, price |-> price,
                      cooldown_time |-> cooldown_time, atr |-> atr,
                      fallback |-> AtrFallback(resp),
                      investment |-> investment, gain |-> percent_gain(hist),
                      order |-> IF result \in {"buy", "buy_unlogged", "order_error"}
                                THEN BuyQty(price) ELSE F(0)]
    /\ UNCHANGED <<cycles, daily_pnl, account>>

SellFaults == {"none", "order", "ledger"}
SellRaised == {"order_error", "sell_unlogged"}

\* the sell loop without the test for a price that is still None
SellResult_NoPriceCheck(pos, fault) ==
    IF pos.symbol \notin DOMAIN asset_map THEN "untracked"
    ELSE LET curr_price == current_prices[asset_map[pos.symbol]]
         IN  IF ~SellGuard(profit_percent(curr_price, entry_price(pos)))
             THEN "hold"
             ELSE IF fault = "order" THEN "order_error"
             ELSE IF fault = "ledger" THEN "sell_unlogged" ELSE "sell"

\* what one turn of the sell loop comes to for position pos
SellResult(pos, fault) ==
    IF pos.symbol \notin DOMAIN asset_map THEN "untracked"
    ELSE LET curr_price == current_prices[asset_map[pos.symbol]]
         IN  IF curr_price = None THEN "no_price"
             ELSE IF ~SellGuard(profit_percent(curr_price, entry_price(pos)))
             THEN "hold"
             ELSE IF fault = "order" THEN "order_error"
             ELSE IF fault = "ledger" THEN "sell_unlogged" ELSE "sell"

\* daily_pnl += pnl comes after submit_order returned
PnlBooked(result) == result \in {"sell", "sell_unlogged"}

\* one turn of the sell loop, for the first position not yet examined
SellStep(fault) ==
    /\ e_pc = "sell"
    /\ todo # <<>>
    /\ FaultAllowed(fault)
    /\ LET pos == Head(todo)
           result == SellResult(pos, fault)
           trade_symbol == asset_map[pos.symbol]
           curr_price == current_prices[trade_symbol]
           pnl == SellPnl(curr_price, entry_price(pos), pos.qty)
       IN  /\ daily_pnl' = IF PnlBooked(result) THEN FracAdd(daily_pnl, pnl)
                           ELSE daily_pnl
           /\ account' = IF result \in {"sell", "sell_unlogged"}
                         THEN SelectSeq(account, LAMBDA p : p # pos)
                         ELSE account
           /\ ledger' =
                IF result = "sell"
                THEN Append(ledger, Record("sell", trade_symbol, curr_price,
                                           F(pos.qty), daily_pnl', <<>>))
                ELSE ledger
           /\ IF result \in SellRaised
              THEN e_pc' = AfterException /\ todo' = <<>>
              ELSE e_pc' = "sell" /\ todo' = Tail(todo)
           /\ faults' = IF result \in SellRaised THEN faults + 1 ELSE faults
           /\ step' = [op |-> "sell_step", result |-> result, pos |-> pos,
                       curr_price |-> IF result \in {"untracked", "no_price"}
                                      THEN None ELSE curr_price,
                       order |-> IF result \in {"sell", "sell_unlogged",
                                                "order_error"}
                                 THEN pos.qty ELSE 0]
    /\ UNCHANGED <<cycles, trade_queue, symbol, current_price,
                   current_prices, price_history, since_trade>>

\* the sell loop is over: if daily_pnl < DAILY_LOSS_LIMIT: break
RiskCheck ==
    /\ e_pc = "sell"
    /\ todo = <<>>
    /\ IF RiskBreached(daily_pnl)
       THEN e_pc' = "halted" /\ step' = [op |-> "risk_check", result |-> "halt"]
       ELSE e_pc' = "sleep" /\ step' = [op |-> "risk_check", result |-> "continue"]
    /\ UNCHANGED <<cycles, trade_queue, tick_vars, book_vars, since_trade, account,
                   faults>>

\* time.sleep(1), and the time until the loop is at trade_queue.get again
Sleep(d) ==
    /\ e_pc = "sleep"
    /\ since_trade' = Elapse(since_trade, d)
    /\ e_pc' = "get"
    /\ step' = [op |-> "sleep", result |-> "ok"]
    /\ UNCHANGED <<cycles, trade_queue, tick_vars, book_vars, account, faults>>

----------------------------------------------------------------------------

Next ==
    \/ \E response \in QuoteResponses : Poll(response)
    \/ FetchFail
    \/ DequeueAbsent
    \/ DequeueTimeout
    \/ \E resp \in BarResponses, fault \in TickFaults : Tick(resp, fault)
    \/ \E fault \in SellFaults : SellStep(fault)
    \/ RiskCheck
    \/ \E d \in Durations : Sleep(d)

Spec == Init /\ [][Next]_vars

----------------------------------------------------------------------------
(* The history update of a tick, taken alone, from histories of any length  *)
(* up to the cap: lines 97-100 of trade_logic, as run once per consumed     *)
(* event with a price.                                                      *)

\* a history of n points of a falling market: each price is below the one
\* before, so no tick that recorded them bought or logged a no_buy
Ramp(n) == [i \in 1..n |-> 2 * HISTORY_CAP - i]

\* the prices the quote responses carry
HistoryPrices ==
    UNION {{r[s] : s \in DOMAIN r} : r \in QuoteResponses} \ {None}

\* the bot after it consumed n events of each symbol, with no position in
\* the account; cycles counts the polling cycles from here on
InitHistory ==
    /\ cycles = 0
    /\ trade_queue = <<>>
    /\ e_pc = "get"
    /\ symbol = SYMBOLS[1]
    /\ current_price = None
    /\ todo = <<>>
    /\ \E n \in {0, HISTORY_CAP - 1, HISTORY_CAP} :
          /\ price_history = [s \in SymbolSet |-> Ramp(n)]
          /\ current_prices =
               [s \in SymbolSet |-> IF n = 0 THEN None ELSE Ramp(n)[n]]
    /\ since_trade = [s \in SymbolSet |-> Saturated]
    /\ daily_pnl = F(0)
    /\ ledger = <<>>
    /\ account = <<>>
    /\ faults = 0
    /\ step = [op |-> "start"]

\* current_prices[symbol] = current_price; price_history[symbol].append(...);
\* pop(0) past the cap, for the event of one more polling cycle
Consume(sym, price) ==
    /\ cycles < MaxCycles
    /\ cycles' = cycles + 1
    /\ symbol' = sym
    /\ current_price' = price
    /\ current_prices' = [current_prices EXCEPT ![sym] = price]
    /\ price_history' =
         [price_history EXCEPT ![sym] = AppendHistory(price_history[sym], price)]
    /\ step' = [op |-> "append", symbol |-> sym, price |-> price,
                before |-> price_history[sym]]
    /\ UNCHANGED <<trade_queue, e_pc, todo, since_trade, daily_pnl, ledger,
                   account, faults>>

NextHistory == \E sym \in SymbolSet, price \in HistoryPrices : Consume(sym, price)

SpecHistory == InitHistory /\ [][NextHistory]_vars

----------------------------------------------------------------------------
(* Properties *)

\* results of a tick whose buy guard was evaluated
Evaluated == {"buy", "buy_unlogged", "order_error", "no_buy", "no_buy_unlogged",
              "none"}
\* results of a tick in which submit_order was called for a buy
BuySubmitted == {"buy", "buy_unlogged", "order_error"}
\* results of a sell-loop turn in which submit_order was called
SellSubmitted == {"sell", "sell_unlogged", "order_error"}

\* the step takes an event from the queue
DequeueStep == Len(trade_queue') < Len(trade_queue)
\* the step is a turn of the sell loop
SellTurn == e_pc = "sell" /\ todo # <<>> /\ todo' # todo

BelowLimit == FracLT(daily_pnl, F(DAILY_LOSS_LIMIT))

\* C1: once daily_pnl is below DAILY_LOSS_LIMIT, no buy record and no sell
\* record is appended to the ledger by any later step.
C1_NoTradeRecordAfterBreach ==
    [][(BelowLimit /\ ledger' # ledger)
         => ledger'[Len(ledger')].action \notin {"buy", "sell"}]_vars

\* C2: while daily_pnl is below DAILY_LOSS_LIMIT the engine takes no event
\* from the queue.
C2_NoDequeueAfterBreach ==
    [][BelowLimit => Len(trade_queue') >= Len(trade_queue)]_vars

\* C3: in a tick whose buy guard is evaluated, a buy order is submitted if and
\* only if price > 0, cooldown_time > MIN_TRADE_COOLDOWN, atr > ATR_MIN,
\* current_investment < MAX_INVESTMENT and percent_gain >= GAIN_THRESHOLD all
\* hold, and the order is for POSITION_SIZE / price.
C3_BuyIffAllGuards ==
    (step.op = "tick" /\ step.result \in Evaluated) =>
        LET guards == /\ step.price > 0
                      /\ step.cooldown_time > MIN_TRADE_COOLDOWN
                      /\ FracGT(step.atr, ATR_MIN)
                      /\ step.investment < MAX_INVESTMENT
                      /\ FracGE(step.gain, GAIN_THRESHOLD)
        IN  /\ step.result \in BuySubmitted <=> guards
            /\ step.result \in BuySubmitted
                 => step.order = Frac(POSITION_SIZE, step.price)
            /\ step.result \notin BuySubmitted => step.order = F(0)

\* a buy went through with percent_gain exactly GAIN_THRESHOLD
C3_Witness ==
    /\ step.op = "tick"
    /\ step.result = "buy"
    /\ step.gain = GAIN_THRESHOLD
    /\ ledger # <<>>
    /\ ledger[Len(ledger)].action = "buy"

\* C4: a tick writes a no_buy record exactly when percent_gain >=
\* GAIN_THRESHOLD and one of the cooldown, ATR and investment guards fails;
\* the record's reason lists the failing guards in that order; no no_buy
\* record is written with percent_gain below the threshold or beside a buy.
C4_NoBuyRecord ==
    [][(DequeueStep /\ step'.result \in Evaluated) =>
        LET s == step'
            failing ==
                (IF s.cooldown_time <= MIN_TRADE_COOLDOWN
                 THEN <<"Cooldown active">> ELSE <<>>)
                \o (IF FracLE(s.atr, ATR_MIN)
                    THEN <<"Low volatility (ATR)">> ELSE <<>>)
                \o (IF s.investment >= MAX_INVESTMENT
                    THEN <<"Max investment reached">> ELSE <<>>)
            due == FracGE(s.gain, GAIN_THRESHOLD) /\ failing # <<>>
        IN  /\ s.result \in {"no_buy", "no_buy_unlogged"} <=> due
            /\ due => s.result \notin BuySubmitted
            /\ IF s.result = "no_buy"
               THEN ledger' = Append(ledger,
                        [action |-> "no_buy", symbol |-> s.symbol,
                         price |-> s.price, qty |-> F(0),
                         daily_pnl |-> daily_pnl, reason |-> failing])
               ELSE \/ ledger' = ledger
                    \/ /\ s.result = "buy"
                       /\ Len(ledger') = Len(ledger) + 1
                       /\ ledger'[Len(ledger')].action = "buy"]_vars

\* a no_buy record with two reasons, in order
C4_Witness ==
    /\ step.op = "tick"
    /\ step.result = "no_buy"
    /\ ledger # <<>>
    /\ ledger[Len(ledger)].reason = <<"Cooldown active", "Low volatility (ATR)">>

\* C5: for a position of a tracked symbol with a known price, the sell loop
\* submits a sell of the whole quantity if and only if profit_percent >=
\* TAKE_PROFIT or profit_percent <= -LOSS_THRESHOLD, where profit_percent is
\* (curr_price - entry_price) / entry_price - FEE_PERCENT.
C5_SellIffThreshold ==
    step.op = "sell_step" =>
        IF step.curr_price = None
        THEN step.order = 0
        ELSE LET entry == Frac(step.pos.cost_basis, step.pos.qty)
                 pp == FracSub(FracDiv(FracSub(F(step.curr_price), entry), entry),
                               FEE_PERCENT)
                 fires == \/ FracGE(pp, TAKE_PROFIT)
                          \/ FracLE(pp, FracSub(F(0), LOSS_THRESHOLD))
             IN  /\ step.result \in SellSubmitted <=> fires
                 /\ step.order = IF fires THEN step.pos.qty ELSE 0

\* a position sold with profit_percent exactly -LOSS_THRESHOLD
C5_Witness ==
    /\ step.op = "sell_step"
    /\ step.result = "sell"
    /\ profit_percent(step.curr_price, entry_price(step.pos))
         = FracSub(F(0), LOSS_THRESHOLD)

\* C6: daily_pnl changes only in a sell-loop turn whose order went through,
\* and then by (curr_price - entry_price) * qty - FEE_PERCENT * entry_price *
\* qty; every other step leaves it as it was.
C6_PnlOnlyOnSell ==
    [][IF SellTurn /\ step'.result \in {"sell", "sell_unlogged"}
       THEN LET pos == step'.pos
                entry == Frac(pos.cost_basis, pos.qty)
                gross == FracMul(FracSub(F(step'.curr_price), entry), F(pos.qty))
                fee == FracMul(FracMul(FEE_PERCENT, entry), F(pos.qty))
            IN  daily_pnl' = FracAdd(daily_pnl, FracSub(gross, fee))
       ELSE daily_pnl' = daily_pnl]_vars

\* a sell has been realized
C6_Witness ==
    /\ step.op = "sell_step"
    /\ step.result = "sell"
    /\ daily_pnl # F(0)
    /\ ledger # <<>>
    /\ ledger[Len(ledger)].daily_pnl = daily_pnl

\* C7: a step in which submit_order raises leaves the cooldown clock,
\* daily_pnl, the ledger and the account as they were and ends the tick.
C7_FailedOrderNotExecuted ==
    [][((DequeueStep \/ SellTurn) /\ step'.result = "order_error")
         => /\ since_trade' = since_trade
            /\ daily_pnl' = daily_pnl
            /\ ledger' = ledger
            /\ account' = account
            /\ e_pc' = "sleep"
            /\ todo' = <<>>]_vars

\* a buy order failed with the cooldown of its symbol long over
C7_Witness ==
    /\ step.op = "tick"
    /\ step.result = "order_error"
    /\ since_trade[step.symbol] = Saturated
    /\ e_pc = "sleep"

\* the last step of the engine ended in an exception
StepRaised ==
    \/ /\ step.op = "tick"
       /\ \/ step.result \in {"timeout", "momentum_error", "positions_error",
                              "order_error", "buy_unlogged", "no_buy_unlogged"}
          \/ ("raised" \in DOMAIN step /\ step.raised)
    \/ step.op = "sell_step" /\ step.result \in {"order_error", "sell_unlogged"}

\* C8: the engine is halted only after a risk check found daily_pnl <
\* DAILY_LOSS_LIMIT; after an exception in a tick or a dequeue timeout the
\* engine is at sleep(1), from where it goes on to the next trade_queue.get.
C8_HaltOnlyOnRiskLimit ==
    /\ e_pc = "halted" => (BelowLimit /\ step.op = "risk_check")
    /\ StepRaised => e_pc = "sleep"
    /\ e_pc = "sleep" => ENABLED (e_pc' = "get" /\ Sleep(1))

\* the division of percent_gain raised and the engine went on
C8_Witness ==
    /\ step.op = "tick"
    /\ step.result = "momentum_error"
    /\ e_pc = "sleep"

\* a polling cycle of the producer
ProducerStep == FetchFail \/ \E response \in QuoteResponses : Poll(response)

\* C9 as stated: after the halt the producer still takes its polling steps.
C9_ProducerOutlivesHalt ==
    (e_pc = "halted" /\ cycles < MaxCycles) => ENABLED ProducerStep

\* C9: after the engine halts the process ends: the producer polls and
\* enqueues no more, and no trade is made.
C9_HaltEndsProcess ==
    [][e_pc = "halted"
         => UNCHANGED <<cycles, trade_queue, ledger, account, daily_pnl>>]_vars

\* the engine halted while the producer had cycles left and events pending
C9_Witness ==
    /\ e_pc = "halted"
    /\ cycles < MaxCycles
    /\ trade_queue # <<>>

\* C10: the pending events of the channel stay below a capacity, here any
\* capacity short of all the events the producer emits in the run.
C10_ChannelBounded == Len(trade_queue) < MaxCycles * Len(SYMBOLS)

\* C11: the queue changes only by events put behind the pending ones and by
\* the engine taking its head, and the price of the event taken, unless
\* absent, goes to the end of the history of its symbol: events of a symbol
\* reach its history in the order they were put, each once.
C11_FifoPerSymbol ==
    [][\/ trade_queue' = trade_queue
       \/ /\ cycles' = cycles + 1
          /\ Len(trade_queue') > Len(trade_queue)
          /\ SubSeq(trade_queue', 1, Len(trade_queue)) = trade_queue
       \/ /\ trade_queue # <<>>
          /\ trade_queue' = Tail(trade_queue)
          /\ LET sym == Head(trade_queue)[1]
                 price == Head(trade_queue)[2]
                 appended == Append(price_history[sym], price)
             IN  IF price = None
                 THEN price_history' = price_history
                 ELSE price_history' =
                        [price_history EXCEPT
                           ![sym] = IF Len(appended) > HISTORY_CAP
                                    THEN Tail(appended) ELSE appended]]_vars

\* two events of a symbol were consumed in the order of their cycles while
\* the event of a third cycle is pending
C11_Witness ==
    /\ price_history[BTC] = <<1001, 1000>>
    /\ trade_queue # <<>>
    /\ Head(trade_queue) = <<BTC, 2000>>

\* C12: a polling cycle that ends in the except clause of fetch_prices, which
\* is every cycle that does not put an event for each symbol, puts no event.
C12_FailedCycleEnqueuesNothing ==
    [][(cycles' = cycles + 1
          /\ Len(trade_queue') < Len(trade_queue) + Len(SYMBOLS))
         => trade_queue' = trade_queue]_vars

\* the step takes an event whose price is absent
AbsentTick ==
    /\ trade_queue # <<>>
    /\ Head(trade_queue)[2] = None
    /\ Len(trade_queue') < Len(trade_queue)
\* the step is a trade_queue.get that times out
TimeoutTick == e_pc = "get" /\ trade_queue = <<>> /\ e_pc' # e_pc

\* C13: a tick that takes an event with an absent price, and a dequeue that
\* times out, leave price history, latest prices, daily_pnl, ledger and
\* account as they were, restart no cooldown clock, submit no order and leave
\* the engine running.
C13_AbsentOrTimeoutNoEffect ==
    [][(AbsentTick \/ TimeoutTick)
         => /\ UNCHANGED <<price_history, current_prices, daily_pnl, ledger,
                           account>>
            /\ \A s \in SymbolSet : since_trade'[s] >= since_trade[s]
            /\ AbsentTick => since_trade' = since_trade
            /\ step'.result \in {"absent", "timeout"}
            /\ e_pc' \in {"get", "sleep"}]_vars

\* an absent price was taken for a symbol whose latest price is known
C13_Witness ==
    /\ step.op = "tick"
    /\ step.result = "absent"
    /\ current_prices[symbol] = 1000
    /\ e_pc = "get"

\* C14: no history holds more than HISTORY_CAP points, and after a price is
\* recorded the history of its symbol is the last HISTORY_CAP (or fewer)
\* points of the history before followed by that price: the oldest point is
\* the one evicted.
C14_HistoryBounded ==
    /\ \A s \in SymbolSet : Len(price_history[s]) <= HISTORY_CAP
    /\ step.op = "append" =>
         LET all == step.before \o <<step.price>>
             n == Len(all)
         IN  price_history[step.symbol] =
               IF n <= HISTORY_CAP THEN all
               ELSE SubSeq(all, n - HISTORY_CAP + 1, n)

\* a price was recorded on a full history and the oldest point is gone
C14_Witness ==
    /\ step.op = "append"
    /\ step.before = Ramp(HISTORY_CAP)
    /\ Len(price_history[step.symbol]) = HISTORY_CAP
    /\ price_history[step.symbol][1] = Ramp(HISTORY_CAP)[2]
    /\ price_history[step.symbol][HISTORY_CAP] = step.price

\* C15: in a tick that computes percent_gain, it is 0 when the history of the
\* symbol holds fewer than 2 prices, and then the tick submits no buy and
\* writes no no_buy record; with 2 or more prices it is (latest - previous) /
\* previous of the two most recent ones.
C15_PercentGain ==
    (step.op = "tick" /\ "gain" \in DOMAIN step) =>
        LET h == price_history[step.symbol]
            n == Len(h)
        IN  IF n < 2
            THEN /\ step.gain = F(0)
                 /\ step.result \notin BuySubmitted \cup {"no_buy", "no_buy_unlogged"}
            ELSE step.gain = Frac(h[n] - h[n - 1], h[n - 1])

\* the first price of a symbol was consumed with every other buy guard
\* holding, and nothing was bought or logged
C15_Witness ==
    /\ step.op = "tick"
    /\ step.result = "none"
    /\ Len(price_history[step.symbol]) = 1
    /\ step.price > 0
    /\ step.cooldown_time > MIN_TRADE_COOLDOWN
    /\ FracGT(step.atr, ATR_MIN)
    /\ step.investment < MAX_INVESTMENT
    /\ ledger = <<>>

\* C16: in a tick whose bar request raised, lacked the symbol or brought
\* fewer than 14 bars the estimate is exactly ATR_MIN, and such a tick is
\* aborted only when a call of the brokerage or the ledger write raised.
C16_AtrFloorOnFallback ==
    (step.op = "tick" /\ "fallback" \in DOMAIN step /\ step.fallback)
      => /\ step.atr = ATR_MIN
         /\ step.raised => faults > 0

\* a tick whose estimate fell back to the floor went on to its sell loop
C16_Witness ==
    /\ step.op = "tick"
    /\ "fallback" \in DOMAIN step
    /\ step.fallback
    /\ step.atr = ATR_MIN
    /\ ~step.raised
    /\ e_pc = "sell"

\* C17: the cooldown clock of a symbol holds the time of its last executed
\* trade, buy or sell: a sell whose order went through restarts the clock of
\* its symbol, so that no buy of the symbol follows within the cooldown.
C17_SellRestartsCooldown ==
    [][(SellTurn /\ step'.result \in {"sell", "sell_unlogged"})
         => since_trade'[asset_map[step'.pos.symbol]] = 0]_vars

\* C18: the sell loop submits a sell for a position only if the position's
\* compact symbol is that of a configured symbol whose latest consumed price
\* is known, and evaluates it at that price; for a position in an untracked
\* symbol or in a symbol without a price yet it submits nothing.
C18_SellOnlyTrackedAndPriced ==
    step.op = "sell_step" =>
        LET tracked == {s \in SymbolSet : normalize_symbol(s) = step.pos.symbol}
        IN  IF \E s \in tracked : current_prices[s] # None
            THEN \E s \in tracked :
                    /\ step.curr_price = current_prices[s]
                    /\ price_history[s] # <<>>
                    /\ current_prices[s] = price_history[s][Len(price_history[s])]
            ELSE /\ step.result \notin SellSubmitted
                 /\ step.order = 0

\* a position of one symbol was sold in a tick triggered by an event of the
\* other symbol
C18_Witness ==
    /\ step.op = "sell_step"
    /\ step.result = "sell"
    /\ step.pos.symbol = ETHUSD
    /\ symbol = BTC
    /\ step.curr_price = current_prices[ETH]

\* C19: a tick submits a buy of a symbol only when more than
\* MIN_TRADE_COOLDOWN seconds have passed on the symbol's clock; a buy whose
\* order went through restarts that clock, and nothing else sets a clock
\* back: two executed buys of a symbol are more than MIN_TRADE_COOLDOWN
\* seconds apart.
C19_BuysApartByCooldown ==
    [][/\ (DequeueStep /\ step'.result \in BuySubmitted)
            => since_trade[step'.symbol] > MIN_TRADE_COOLDOWN
       /\ (DequeueStep /\ step'.result \in {"buy", "buy_unlogged"})
            => since_trade'[step'.symbol] = 0
       /\ \A s \in SymbolSet :
            since_trade'[s] < since_trade[s]
              => /\ DequeueStep
                 /\ step'.result \in {"buy", "buy_unlogged"}
                 /\ step'.symbol = s
                 /\ since_trade'[s] = 0]_vars

\* exactly MIN_TRADE_COOLDOWN seconds after a buy of the symbol a tick with
\* every other guard holding did not buy
C19_Witness ==
    /\ step.op = "tick"
    /\ step.result = "no_buy"
    /\ step.cooldown_time = MIN_TRADE_COOLDOWN
    /\ Len(ledger) >= 2
    /\ ledger[Len(ledger)].reason = <<"Cooldown active">>
    /\ \E i \in 1..(Len(ledger) - 1) :
          ledger[i].action = "buy" /\ ledger[i].symbol = step.symbol

\* C20: a tick whose volatility estimate fell back to the floor submits no
\* buy; if its percent_gain reached GAIN_THRESHOLD it writes a no_buy record,
\* and the record's reason includes the low-volatility reason.
C20_NoBuyOnAtrFallback ==
    (step.op = "tick" /\ "fallback" \in DOMAIN step /\ step.fallback) =>
        /\ step.result \notin BuySubmitted
        /\ step.order = F(0)
        /\ (step.result \in Evaluated /\ FracGE(step.gain, GAIN_THRESHOLD))
             => step.result \in {"no_buy", "no_buy_unlogged"}
        /\ step.result = "no_buy"
             => /\ ledger # <<>>
                /\ ledger[Len(ledger)].action = "no_buy"
                /\ ledger[Len(ledger)].symbol = step.symbol
                /\ \E i \in DOMAIN ledger[Len(ledger)].reason :
                      ledger[Len(ledger)].reason[i] = "Low volatility (ATR)"

\* a tick with the floor estimate and every other guard holding logged a
\* no_buy for low volatility alone
C20_Witness ==
    /\ step.op = "tick"
    /\ step.result = "no_buy"
    /\ step.fallback
    /\ step.cooldown_time > MIN_TRADE_COOLDOWN
    /\ step.investment < MAX_INVESTMENT
    /\ FracGE(step.gain, GAIN_THRESHOLD)
    /\ ledger[Len(ledger)].reason = <<"Low volatility (ATR)">>

====
